---- MODULE Spec2Model ----
(***************************************************************************)
(* Model of stage-3-generate-next-dataset/synthetic_data_generation.py:    *)
(* main() calls generate_dataset(ALPHA, BETA, SIGMA, N) and then           *)
(* persist_dataset(dataset, AWS_S3_BUCKET).  The local disk and the S3     *)
(* bucket outlive a run of the script, so the model lets the script run    *)
(* several times against the same disk and bucket, while the calendar day  *)
(* may change at any moment.                                               *)
(*                                                                         *)
(* Numbers: the script works on floats.  The model works on integers; the  *)
(* slope (BETA = 0.5) is a fraction and the X samples are multiples of its *)
(* denominator, so every y of the model is the exact value of the float    *)
(* expression.  N = 24 * 60 rows cannot be enumerated: the row count is an *)
(* argument drawn from -1 .. MaxRows (generate_dataset on its own) or from *)
(* -1 .. MaxN (main).                                                      *)
(***************************************************************************)
EXTENDS Integers, Sequences, FiniteSets, TLC

VARIABLES
    alpha, beta, sigma, n,   \* the arguments of generate_dataset
    today,                   \* what date.today() returns now (days since Epoch)
    pc,                      \* where the process is
    X, epsilon,              \* the draws of generate_dataset
    dataset,                 \* the DataFrame generate_dataset returned
    data_date,               \* persist_dataset: the date it read
    dataset_filename,        \* persist_dataset: the local file name
    aws_bucket,              \* persist_dataset: the bucket it was given
    localFiles,              \* the working directory: file name -> lines
    s3,                      \* the object store: <<bucket, key>> -> lines
    stdout,                  \* the lines printed by this run
    calls,                   \* the functions main has called in this run
    uploads,                 \* the upload_file calls of this run
    raised,                  \* the exception raised in this run, if any
    exitStatus,              \* the exit status of the process (-1: running)
    runs,                    \* how many times the script has been started
    history                  \* one entry per to_csv call that touched the disk

vars == <<alpha, beta, sigma, n, today, pc, X, epsilon, dataset, data_date,
          dataset_filename, aws_bucket, localFiles, s3, stdout, calls, uploads, raised,
          exitStatus, runs, history>>

---------------------------------------------------------------------------
(* Bounds of the exploration *)

MaxRows == 3        \* generate_dataset alone: n ranges over -1 .. MaxRows
MaxN == 1           \* main: the row count N ranges over -1 .. MaxN
MaxDay == 1         \* the calendar advances at most MaxDay times
MaxRuns == 2        \* the script is started at most MaxRuns times

(* Module-level constants of the script *)

AWS_S3_BUCKET == "bodywork-ml-ops-project"
ALPHA == 30
BETA == [num |-> 1, den |-> 2]
SIGMA == 10

(* Samples of the random source: np.random.uniform(0, 100, n) yields values
   of [0, 100), np.random.normal(0, 1, n) yields any real.  The samples
   straddle the filter's threshold for the script's constants:
   30 + 0.5 * 2 + 10 * 0 = 31 and 30 + 0.5 * 2 + 10 * (-4) = -9. *)
XSamples == {0, 2}
EpsSamples == {-4, 0}

---------------------------------------------------------------------------
(* datetime.date *)

Epoch == [year |-> 2021, month |-> 12, day |-> 31]

IsLeap(y) == (y % 4 = 0 /\ y % 100 # 0) \/ y % 400 = 0

DaysInMonth(y, m) ==
    IF m = 2 THEN (IF IsLeap(y) THEN 28 + 1 ELSE 28)
    ELSE IF m \in {4, 6, 9, 11} THEN 30 ELSE 31

NextDate(d) ==
    IF d.day < DaysInMonth(d.year, d.month)
    THEN [d EXCEPT !.day = d.day + 1]
    ELSE IF d.month < 12
         THEN [d EXCEPT !.month = d.month + 1, !.day = 1]
         ELSE [year |-> d.year + 1, month |-> 1, day |-> 1]

RECURSIVE DateOf(_)
DateOf(k) == IF k = 0 THEN Epoch ELSE NextDate(DateOf(k - 1))

Pad2(k) == IF k < 10 THEN "0" \o ToString(k) ELSE ToString(k)

Pad4(k) ==
    IF k < 10 THEN "000" \o ToString(k)
    ELSE IF k < 100 THEN "00" \o ToString(k)
    ELSE IF k < 1000 THEN "0" \o ToString(k)
    ELSE ToString(k)

(* str(date): the ISO form YYYY-MM-DD *)
DateStr(d) == Pad4(d.year) \o "-" \o Pad2(d.month) \o "-" \o Pad2(d.day)

(* str(date.today()) when the clock shows day k *)
TodayStr(k) == DateStr(DateOf(k))

---------------------------------------------------------------------------
(* generate_dataset *)

(* beta * x for a slope given as a fraction; exact on multiples of beta.den *)
Times(b, x) == (b.num * x) \div b.den

(* y = alpha + beta * X + sigma * epsilon, one element *)
LinearModel(a, b, s, x, e) == a + Times(b, x) + s * e

(* pd.DataFrame({'date': datestr, 'y': y, 'X': X}) *)
DataFrame(datestr, a, b, s, xs, es) ==
    [i \in 1..Len(xs) |->
        [date |-> datestr, y |-> LinearModel(a, b, s, xs[i], es[i]), X |-> xs[i]]]

(* the filter, were every row kept *)
KeepAll(row) == TRUE

(* the filter, were it 'y > 0' *)
KeepPositive(row) == row.y > 0

(* the row filter of dataset.query('y >= 0') *)
KeepRow(row) == row.y >= 0

(* dataset.query(...): the rows that pass the filter, in order *)
Query(rows) == SelectSeq(rows, KeepRow)

NoError == [class |-> "none", at |-> "none"]

(* The process dies of an uncaught exception: Python prints the traceback
   and exits with status 1. *)
Crash(class, at) ==
    /\ raised' = [class |-> class, at |-> at]
    /\ pc' = "exited"
    /\ exitStatus' = 1

(* generate_dataset with a negative n: np.full(n, ...) raises ValueError
   ("negative dimensions are not allowed") before anything is drawn. *)
GenerateRaises ==
    /\ pc = "main"
    /\ n < 0
    /\ calls' = Append(calls, "generate_dataset")
    /\ Crash("ValueError", "generate_dataset")
    /\ UNCHANGED <<alpha, beta, sigma, n, today, X, epsilon, dataset, data_date,
                   dataset_filename, aws_bucket, localFiles, s3, stdout, uploads,
                   runs, history>>

(* generate_dataset with n >= 0: n draws of X and of the noise, the table,
   the filter. *)
GenerateReturns ==
    /\ pc = "main"
    /\ n >= 0
    /\ \E xs \in [1..n -> XSamples], es \in [1..n -> EpsSamples] :
          /\ X' = xs
          /\ epsilon' = es
          /\ dataset' = Query(DataFrame(TodayStr(today), alpha, beta, sigma, xs, es))
    /\ calls' = Append(calls, "generate_dataset")
    /\ pc' = "persist_dataset"
    /\ UNCHANGED <<alpha, beta, sigma, n, today, data_date, dataset_filename,
                   aws_bucket, localFiles, s3, stdout, uploads, raised,
                   exitStatus, runs, history>>

(* The state shared by both specifications once the arguments are chosen. *)
InitRest ==
    /\ today = 0
    /\ pc = "main"
    /\ X = <<>>
    /\ epsilon = <<>>
    /\ dataset = <<>>
    /\ data_date = 0
    /\ dataset_filename = ""
    /\ aws_bucket = ""
    /\ localFiles = [f \in {} |-> <<>>]
    /\ s3 = [o \in {} |-> <<>>]
    /\ stdout = <<>>
    /\ calls = <<>>
    /\ uploads = <<>>
    /\ raised = NoError
    /\ exitStatus = -1
    /\ runs = 1
    /\ history = <<>>

(* generate_dataset as a function of its arguments and of the draws: the
   arguments range over intercepts, slopes and noise scales of either sign. *)
GenAlphas == {-1, 0, ALPHA}
GenBetas == {[num |-> 0, den |-> 1], BETA, [num |-> 1, den |-> 1]}
GenSigmas == {0, 1, SIGMA}

GenInit ==
    /\ alpha \in GenAlphas
    /\ beta \in GenBetas
    /\ sigma \in GenSigmas
    /\ n \in -1..MaxRows
    /\ InitRest

GenNext == GenerateRaises \/ GenerateReturns

GenSpec == GenInit /\ [][GenNext]_vars

---------------------------------------------------------------------------
(* persist_dataset *)

(* the file name, were it to tell the runs of one day apart *)
DatasetFilenamePerRun(d) ==
    "regression-dataset-" \o DateStr(d) \o "-" \o ToString(runs) \o ".csv"

(* f'regression-dataset-{data_date}.csv' *)
DatasetFilename(d) == "regression-dataset-" \o DateStr(d) \o ".csv"

(* the key, had it been built from a second reading of the clock *)
ObjectKeyOfToday(filename) == "datasets/" \o DatasetFilename(DateOf(today))

(* f'datasets/{dataset_filename}' *)
ObjectKey(filename) == "datasets/" \o filename

(* dataset.to_csv(..., header=True, index=False): the header line, then one
   line per row, the columns in the order date, y, X *)
ToCsv(rows) ==
    <<"date,y,X">> \o
    [i \in 1..Len(rows) |->
        rows[i].date \o "," \o ToString(rows[i].y) \o "," \o ToString(rows[i].X)]

(* A file or an object written under a name replaces what the name held. *)
Put(store, name, body) ==
    [k \in DOMAIN store \cup {name} |-> IF k = name THEN body ELSE store[k]]

SuccessNotice(filename, bucket) ==
    "uploaded " \o filename \o " to s3://" \o bucket \o "/datasets/"

WarningNotice == "could not upload dataset to S3 - check AWS credentials"

(* the clause, were it to catch a class that is never raised *)
CatchesNothing(class) == FALSE

(* the clause, were it 'except Exception' *)
CatchesEverything(class) == TRUE

(* except ClientError: the classes the clause catches *)
Catches(class) == class = "ClientError"

(* the except clause, were it to end with 'raise' *)
ExceptClauseReraising == [prints |-> <<WarningNotice>>, reraises |-> TRUE]

(* the except clause, were its body 'pass' *)
ExceptClauseSilent == [prints |-> <<>>, reraises |-> FALSE]

(* the body of the except clause: one print, and the exception ends there *)
ExceptClause == [prints |-> <<WarningNotice>>, reraises |-> FALSE]

(* What client construction and upload_file can raise: botocore's
   ClientError, and a class that does not derive from it. *)
StorageErrors == {"ClientError", "BotoCoreError"}

(* persist_dataset returns, main returns, the interpreter exits with 0 *)
ReturnToExit ==
    /\ pc' = "exited"
    /\ exitStatus' = 0

(* An exception of the given class is raised inside the try block. *)
RaisedInTry(class, at) ==
    IF Catches(class)
    THEN /\ stdout' = stdout \o ExceptClause.prints
         /\ IF ExceptClause.reraises
            THEN Crash(class, at)
            ELSE /\ raised' = [class |-> class, at |-> at]
                 /\ ReturnToExit
    ELSE /\ stdout' = stdout
         /\ Crash(class, at)

(* Lines 38-40 of persist_dataset: read the date, name the file, write it.
   to_csv may fail (OSError: no permission, disk full); the file is then
   untouched, or opened for writing and left truncated.  The frame of
   generate_dataset is gone: its draws are forgotten. *)
PersistWrite ==
    /\ pc = "persist_dataset"
    /\ calls' = Append(calls, "persist_dataset")
    /\ aws_bucket' = AWS_S3_BUCKET
    /\ data_date' = today
    /\ dataset_filename' = DatasetFilename(DateOf(today))
    /\ LET csv == ToCsv(dataset)
           entry(ok) == [day |-> today, name |-> dataset_filename', body |-> csv,
                         written |-> ok, uploaded |-> FALSE,
                         object |-> <<"", "">>]
       IN \/ /\ localFiles' = Put(localFiles, dataset_filename', csv)
             /\ history' = Append(history, entry(TRUE))
             /\ pc' = "client"
             /\ UNCHANGED <<raised, exitStatus>>
          \/ /\ \/ /\ localFiles' = localFiles
                   /\ history' = history
                \/ /\ localFiles' = Put(localFiles, dataset_filename', <<>>)
                   /\ history' = Append(history, entry(FALSE))
             /\ Crash("OSError", "to_csv")
    /\ X' = <<>>
    /\ epsilon' = <<>>
    /\ UNCHANGED <<alpha, beta, sigma, n, today, dataset, s3, stdout, uploads,
                   runs>>

(* Line 42: aws.client('s3'), inside the try block *)
MakeClient ==
    /\ pc = "client"
    /\ \/ /\ pc' = "upload_file"
          /\ UNCHANGED <<stdout, raised, exitStatus>>
       \/ \E class \in StorageErrors : RaisedInTry(class, "client")
    /\ UNCHANGED <<alpha, beta, sigma, n, today, X, epsilon, dataset, data_date,
                   dataset_filename, aws_bucket, localFiles, s3, calls, uploads,
                   runs, history>>

(* Lines 43-50: upload_file(dataset_filename, aws_bucket, key) reads the
   local file of that name and stores it under the key; then the print, or
   the except clause. *)
UploadFile ==
    /\ pc = "upload_file"
    /\ LET key == ObjectKey(dataset_filename)
           call == [Filename |-> dataset_filename, Bucket |-> aws_bucket, Key |-> key]
       IN /\ uploads' = Append(uploads, call)
          /\ IF dataset_filename \notin DOMAIN localFiles
             THEN /\ RaisedInTry("FileNotFoundError", "upload_file")
                  /\ UNCHANGED <<s3, history>>
             ELSE \/ /\ s3' = Put(s3, <<aws_bucket, key>>, localFiles[dataset_filename])
                     /\ history' = [history EXCEPT ![Len(history)] =
                                       [@ EXCEPT !.uploaded = TRUE,
                                                 !.object = <<aws_bucket, key>>]]
                     /\ stdout' = Append(stdout, SuccessNotice(dataset_filename, aws_bucket))
                     /\ raised' = raised
                     /\ ReturnToExit
                  \/ /\ \E class \in StorageErrors : RaisedInTry(class, "upload_file")
                     /\ UNCHANGED <<s3, history>>
    /\ UNCHANGED <<alpha, beta, sigma, n, today, X, epsilon, dataset, data_date,
                   dataset_filename, aws_bucket, localFiles, calls, runs>>

---------------------------------------------------------------------------
(* The environment *)

(* Midnight passes while the script runs.  (The clock is not read between
   two runs: a midnight there is one that passes before the first step of
   the next run.) *)
Tick ==
    /\ pc # "exited"
    /\ today < MaxDay
    /\ today' = today + 1
    /\ UNCHANGED <<alpha, beta, sigma, n, pc, X, epsilon, dataset, data_date,
                   dataset_filename, aws_bucket, localFiles, s3, stdout, calls,
                   uploads, raised, exitStatus, runs, history>>

(* The script is started again: a new process, the same disk and bucket. *)
Rerun ==
    /\ pc = "exited"
    /\ runs < MaxRuns
    /\ runs' = runs + 1
    /\ pc' = "main"
    /\ X' = <<>>
    /\ epsilon' = <<>>
    /\ dataset' = <<>>
    /\ data_date' = 0
    /\ dataset_filename' = ""
    /\ aws_bucket' = ""
    /\ stdout' = <<>>
    /\ calls' = <<>>
    /\ uploads' = <<>>
    /\ raised' = NoError
    /\ exitStatus' = -1
    /\ UNCHANGED <<alpha, beta, sigma, n, today, localFiles, s3, history>>

(* main(): the arguments are the module's constants; the row count is
   bounded. *)
Init ==
    /\ alpha = ALPHA
    /\ beta = BETA
    /\ sigma = SIGMA
    /\ n \in -1..MaxN
    /\ InitRest

Next ==
    \/ GenerateRaises
    \/ GenerateReturns
    \/ PersistWrite
    \/ MakeClient
    \/ UploadFile
    \/ Tick
    \/ Rerun

Spec == Init /\ [][Next]_vars

---------------------------------------------------------------------------
(* Properties of generate_dataset, under GenSpec *)

Returned == pc = "persist_dataset"

(* C1: for n > 0 and whatever the draws, the table generate_dataset returns
   has at most n rows and every row of it has y >= 0. *)
C1_AtMostNRowsAllNonNegative ==
    (Returned /\ n > 0) =>
        /\ Len(dataset) <= n
        /\ \A i \in 1..Len(dataset) : dataset[i].y >= 0

(* a call with n > 0 that dropped a row and kept a row *)
C1_Witness ==
    /\ Returned
    /\ n > 0
    /\ 0 < Len(dataset)
    /\ Len(dataset) < n

(* the y of the i-th drawn row *)
DrawnY(i) == alpha + (beta.num * X[i]) \div beta.den + sigma * epsilon[i]

(* the draws with y >= 0 *)
KeptDraws == {i \in 1..Len(X) : DrawnY(i) >= 0}

(* the place of draw i among the kept draws *)
Rank(i) == Cardinality({k \in KeptDraws : k <= i})

(* C2: the returned table is exactly the drawn rows with y >= 0, in draw
   order: as many rows as there are draws with y >= 0 (a draw with y = 0
   among them), and the k-th kept draw is the k-th row, with its own X and
   its own y. *)
C2_ExactlyTheNonNegativeRowsInOrder ==
    Returned =>
        /\ Len(X) = n
        /\ Len(dataset) = Cardinality(KeptDraws)
        /\ \A i \in KeptDraws :
              /\ dataset[Rank(i)].y = DrawnY(i)
              /\ dataset[Rank(i)].X = X[i]

(* three draws: y = 0 (kept), y < 0 (dropped), y > 0 with another X (kept) *)
C2_Witness ==
    /\ Returned
    /\ Len(X) = 3
    /\ DrawnY(1) = 0
    /\ DrawnY(2) < 0
    /\ DrawnY(3) > 0
    /\ X[1] # X[3]
    /\ Len(dataset) = 2

---------------------------------------------------------------------------
(* Properties of persist_dataset and main, under Spec *)

Exited == pc = "exited"

(* persist_dataset has been called in this run *)
Persisting == Len(calls) = 2

(* the local file of this call holds the CSV of this run's dataset *)
LocalFileWritten ==
    /\ dataset_filename \in DOMAIN localFiles
    /\ localFiles[dataset_filename] = ToCsv(dataset)

(* C3: when the storage client's error (ClientError) is raised for the
   upload, persist_dataset returns normally (the process exits with 0), the
   warning and nothing else has been printed, and the local CSV file written
   before the attempt is still on disk. *)
C3_ClientErrorIsSwallowed ==
    raised.class = "ClientError" =>
        /\ Exited
        /\ exitStatus = 0
        /\ stdout = <<WarningNotice>>
        /\ LocalFileWritten

(* upload_file raised ClientError for a dataset with a row *)
C3_Witness ==
    /\ raised = [class |-> "ClientError", at |-> "upload_file"]
    /\ Len(uploads) = 1
    /\ Len(dataset) > 0
    /\ exitStatus = 0

(* C4: an error of any other class raised in persist_dataset is not caught:
   the process ends abruptly (status 1) with neither notice printed, and if
   it was raised by the local CSV write no upload was attempted. *)
C4_OtherErrorsEscape ==
    (raised.at \in {"to_csv", "client", "upload_file"} /\ raised.class # "ClientError") =>
        /\ Exited
        /\ exitStatus = 1
        /\ stdout = <<>>
        /\ (raised.at \in {"to_csv", "client"} => uploads = <<>>)

(* an earlier run died in to_csv, this one of a non-client error in the
   upload *)
C4_Witness ==
    /\ Len(history) = 2
    /\ ~history[1].written
    /\ raised = [class |-> "BotoCoreError", at |-> "upload_file"]
    /\ exitStatus = 1

(* C5: main calls generate_dataset and then persist_dataset, each once, and
   a run in which nothing but the storage client's error was raised exits
   with 0, whether the upload succeeded or failed. *)
C5_GenerateThenPublishExitsZero ==
    /\ calls \in {<<>>, <<"generate_dataset">>,
                  <<"generate_dataset", "persist_dataset">>}
    /\ (Exited /\ raised.class \in {"none", "ClientError"}) =>
           /\ exitStatus = 0
           /\ calls = <<"generate_dataset", "persist_dataset">>

(* a second run whose upload failed exits with 0, after a first run whose
   upload succeeded *)
C5_Witness ==
    /\ Exited
    /\ exitStatus = 0
    /\ n > 0
    /\ Len(history) = 2
    /\ history[1].uploaded
    /\ raised = [class |-> "ClientError", at |-> "upload_file"]

(* C6: at most one upload attempt in a run, made only once the local CSV
   file is written; a run that returns normally has printed exactly one
   notice, the success notice exactly if the upload succeeded (no exception
   raised) and the warning exactly if it failed. *)
C6_OneAttemptOneNotice ==
    /\ Len(uploads) <= 1
    /\ uploads # <<>> => LocalFileWritten
    /\ (Exited /\ exitStatus = 0) =>
           /\ Len(stdout) = 1
           /\ Len(history) > 0
           /\ stdout[1] = SuccessNotice(dataset_filename, aws_bucket)
                 <=> (raised = NoError /\ Len(uploads) = 1
                        /\ history[Len(history)].uploaded)
           /\ stdout[1] = WarningNotice
                 <=> (raised.class = "ClientError" /\ ~history[Len(history)].uploaded)

(* a run returned normally after a failed upload attempt *)
C6_Witness ==
    /\ Exited
    /\ exitStatus = 0
    /\ Len(uploads) = 1
    /\ stdout = <<WarningNotice>>


(* history[j] is a later to_csv call made with the date of history[i] *)
LaterSameDay(i, j) == i < j /\ history[j].day = history[i].day

PersistedDays == {history[i].day : i \in 1..Len(history)}

(* C7: runs on one calendar day all write one local file name and upload to
   one key.  There are no more files and no more objects than days on which
   the script ran; the day's file holds the dataset of the latest run of
   that day (when its write completed), and the day's object holds the
   dataset of the latest run of that day whose upload succeeded. *)
C7_SameDayLastWriteWins ==
    /\ Cardinality(DOMAIN localFiles) <= Cardinality(PersistedDays)
    /\ Cardinality(DOMAIN s3) <= Cardinality(PersistedDays)
    /\ \A i \in 1..Len(history) :
          LET run == history[i]
              later == {j \in 1..Len(history) : LaterSameDay(i, j)}
          IN /\ \A j \in later : history[j].name = run.name
             /\ (run.written /\ later = {}) =>
                   /\ run.name \in DOMAIN localFiles
                   /\ localFiles[run.name] = run.body
             /\ run.uploaded =>
                   /\ \A j \in later : history[j].uploaded => history[j].object = run.object
                   /\ run.object \in DOMAIN s3
                   /\ (\A j \in later : ~history[j].uploaded) => s3[run.object] = run.body

(* two runs on one day with different datasets: the first uploaded, the
   second wrote its file and failed to upload; the file holds the second
   dataset and the object still the first *)
C7_Witness ==
    /\ Exited
    /\ Len(history) = 2
    /\ history[1].day = history[2].day
    /\ history[1].body # history[2].body
    /\ history[1].uploaded
    /\ history[2].written
    /\ ~history[2].uploaded
    /\ localFiles[history[2].name] = history[2].body
    /\ s3[history[1].object] = history[1].body

(* C8: in a call of persist_dataset the local file is named
   regression-dataset-<YYYY-MM-DD>.csv for the date the call read; every
   upload is of that file, just written by this call, to the bucket given
   as argument, under the key 'datasets/' followed by that file name; a
   successful upload leaves that file's content under that key. *)
C8_FileNameBucketAndKey ==
    Persisting =>
        /\ aws_bucket = AWS_S3_BUCKET
        /\ dataset_filename = "regression-dataset-" \o TodayStr(data_date) \o ".csv"
        /\ \A k \in 1..Len(uploads) :
              /\ uploads[k].Filename = dataset_filename
              /\ uploads[k].Bucket = aws_bucket
              /\ uploads[k].Key = "datasets/" \o dataset_filename
              /\ LocalFileWritten
              /\ (Exited /\ raised = NoError) =>
                    /\ <<aws_bucket, uploads[k].Key>> \in DOMAIN s3
                    /\ s3[<<aws_bucket, uploads[k].Key>>] = ToCsv(dataset)

(* an upload that succeeded after midnight had passed since the call read
   the date *)
C8_Witness ==
    /\ Exited
    /\ raised = NoError
    /\ Len(uploads) = 1
    /\ today # data_date
    /\ Len(dataset) > 0

(* C9: a call of generate_dataset with a malformed row count (one that is not
   n > 0) raises an input-validation error before any table is built, and
   under main persist_dataset is never reached: no file, no upload. *)
C9_MalformedRowCountFailsFast ==
    (~(n > 0) /\ calls # <<>>) =>
        /\ raised = [class |-> "ValueError", at |-> "generate_dataset"]
        /\ exitStatus = 1
        /\ calls = <<"generate_dataset">>
        /\ DOMAIN localFiles = {}
        /\ uploads = <<>>

(* C10: once persist_dataset has named its file, the date in every row of
   the dataset is the date in the file name and in the key of every upload. *)
C10_RowDateIsFileDate ==
    Persisting =>
        \A i \in 1..Len(dataset) :
            /\ dataset_filename = "regression-dataset-" \o dataset[i].date \o ".csv"
            /\ \A k \in 1..Len(uploads) :
                  uploads[k].Key = "datasets/regression-dataset-" \o dataset[i].date \o ".csv"

====
